---- MODULE Spec2Model ----
(***************************************************************************)
(* The receipt ledger of uber/models/commerce.py: one ModelReceipt with    *)
(* its receipt_items and receipt_txns rows, the aggregates computed over   *)
(* them, and the reconciliation of ReceiptTransaction rows against the     *)
(* payment intents held by Stripe; and the fields that the attendee forms  *)
(* of uber/forms/attendee.py lock for non-admins.                          *)
(***************************************************************************)
EXTENDS Integers, Sequences, FiniteSets, TLC

VARIABLES
    receipt_items,   \* ModelReceipt.receipt_items: the ReceiptItem rows of the receipt
    receipt_txns,    \* ModelReceipt.receipt_txns: the ReceiptTransaction rows of the receipt
    stripe_charges,  \* Stripe's side: intent id -> ids of intent.charges.data, in order
    op,              \* the last operation: its name and the transaction it was called on
    calls,           \* the external calls made by the last operation, in order
    raised,          \* whether the last operation ended by raising an exception
    attendee,        \* the Attendee a form is asked about
    BADGE_TYPE_PRICES, \* c.BADGE_TYPE_PRICES: the badge types that have a price configured
    locked,          \* the form last asked and what its get_non_admin_locked_fields returned
    invocations,     \* the concurrent check_paid_from_stripe calls: where each is, what it read
    stripe_refunds   \* payment intent id -> the amounts of the refunds Stripe lists for it

vars == <<receipt_items, receipt_txns, stripe_charges, op, calls, raised,
          attendee, BADGE_TYPE_PRICES, locked, invocations, stripe_refunds>>

\* the receipt, its rows and Stripe
ledger_vars == <<receipt_items, receipt_txns, stripe_charges, op, calls, raised>>

\* what the operations on the receipt leave alone
beside_ledger ==
    <<attendee, BADGE_TYPE_PRICES, locked, invocations, stripe_refunds>>

\* what asking a form leaves alone
beside_forms == <<ledger_vars, invocations, stripe_refunds>>

----------------------------------------------------------------------------
(* Bounds of the model *)

MaxItems == 1
MaxTxns == 2
MaxCharges == 2
MaxRefunds == 2

----------------------------------------------------------------------------
(* Column values *)

\* Python's None / SQL's NULL in a text or datetime column
None == "None"

\* c.STRIPE and one other member of c.PAYMENT_METHOD_OPTS
STRIPE == "STRIPE"
CASH == "CASH"

\* Python truthiness of a nullable text or datetime column value
Truthy(v) == v # None /\ v # ""

Min(a, b) == IF a <= b THEN a ELSE b
Max(a, b) == IF a >= b THEN a ELSE b

RECURSIVE Sum(_)
\* Python's sum() over a list of integers
Sum(s) == IF s = <<>> THEN 0 ELSE Head(s) + Sum(Tail(s))

----------------------------------------------------------------------------
(* ReceiptItem *)

\* ReceiptItem.total_amount
total_amount(item) == item.amount * item.count

\* [item.total_amount for item in items]
TotalAmounts(items) == [k \in 1..Len(items) |-> total_amount(items[k])]

----------------------------------------------------------------------------
(* ReceiptTransaction *)

\* [txn.amount for txn in txns]
Amounts(txns) == [k \in 1..Len(txns) |-> txns[k].amount]

\* ReceiptTransaction.receipt_share, over the items of the transaction's receipt
receipt_share(txn, items) ==
    LET before(item) == item.added <= txn.added
    IN  Min(txn.amount, Sum(TotalAmounts(SelectSeq(items, before))))

\* ReceiptTransaction.is_pending_charge (its truth value)
is_pending_charge(txn) ==
    Truthy(txn.intent_id) /\ ~Truthy(txn.charge_id) /\ ~Truthy(txn.cancelled)

\* ReceiptTransaction.stripe_id
stripe_id(txn) == IF Truthy(txn.charge_id) THEN txn.charge_id ELSE txn.intent_id

----------------------------------------------------------------------------
(* ModelReceipt: the aggregates, as functions of the receipt's rows *)

\* the filter of the instance-level payment_total
CountsAsPayment(txn) ==
    ~Truthy(txn.cancelled)
    /\ (Truthy(txn.charge_id) \/ (txn.method # STRIPE /\ txn.amount > 0))

open_receipt_items(items) ==
    LET open(item) == ~Truthy(item.closed)
    IN  SelectSeq(items, open)

closed_receipt_items(items) ==
    LET closed(item) == Truthy(item.closed)
    IN  SelectSeq(items, closed)

cancelled_txns(txns) ==
    LET cancelled(txn) == Truthy(txn.cancelled)
    IN  SelectSeq(txns, cancelled)

pending_txns(txns) == SelectSeq(txns, is_pending_charge)

pending_total(txns) == Sum(Amounts(SelectSeq(txns, is_pending_charge)))

\* ModelReceipt.payment_total, the instance-level (Python) form
payment_total(items, txns) ==
    LET counted == SelectSeq(txns, CountsAsPayment)
    IN  Sum([k \in 1..Len(counted) |-> receipt_share(counted[k], items)])

\* the WHERE clause of the class-level payment_total, for the rows of this receipt
PaymentRowSelected(txn) ==
    txn.cancelled = None
    /\ (txn.charge_id # None \/ (txn.method # STRIPE /\ txn.amount > 0))

\* ModelReceipt.payment_total, the class-level (SQL) form: func.sum over the
\* selected rows; SQL's SUM over no rows is NULL, written <<>>, else <<sum>>
payment_total_expression(txns) ==
    LET rows == SelectSeq(txns, PaymentRowSelected)
    IN  IF rows = <<>> THEN <<>> ELSE <<Sum(Amounts(rows))>>

\* ModelReceipt.refund_total, the instance-level form
refund_total(txns) ==
    LET negative(txn) == txn.amount < 0
    IN  Sum(Amounts(SelectSeq(txns, negative))) * (-1)

\* item_total summing the open items only
item_total_open_only(items) == Sum(TotalAmounts(open_receipt_items(items)))

\* ModelReceipt.item_total
item_total(items) == Sum(TotalAmounts(items))

\* ModelReceipt.txn_total
txn_total(items, txns) == payment_total(items, txns) - refund_total(txns)

\* ModelReceipt.current_receipt_amount
current_receipt_amount(items, txns) == item_total(items) - txn_total(items, txns)

\* current_amount_owed without the floor at 0
current_amount_owed_unfloored(items, txns) == current_receipt_amount(items, txns)

\* ModelReceipt.current_amount_owed
current_amount_owed(items, txns) == Max(0, current_receipt_amount(items, txns))

----------------------------------------------------------------------------
(* Stripe and Charge, as seen from ReceiptTransaction *)

IntentIds == {"pi_1"}
ChargeIds == <<"ch_1", "ch_2", "ch_3">>

RetrieveCall(intent_id) == <<"stripe.PaymentIntent.retrieve", intent_id>>
LogErrorCall == <<"log.error">>
MarkPaidCall(intent_id, charge_id) ==
    <<"Charge.mark_paid_from_intent_id", intent_id, charge_id>>

\* Charge.mark_paid_from_intent_id (uber/utils.py) is imported by commerce.py
\* and defined outside it: what it writes is left open.  It is given an
\* intent and a charge, so each transaction of the intent, with or without a
\* charge_id, either gets the charge's id or is left as it is; the result
\* is the set of the receipts the call may leave behind.
mark_paid_from_intent_id(txns, intent_id, charge_id) ==
    LET of_intent == {i \in 1..Len(txns) : txns[i].intent_id = intent_id}
    IN  {[i \in 1..Len(txns) |->
             IF i \in written
             THEN [txns[i] EXCEPT !.charge_id = charge_id]
             ELSE txns[i]] : written \in SUBSET of_intent}

\* get_stripe_intent letting the exception of a failed retrieval through
get_stripe_intent_propagating(txn, charges, ok) ==
    IF ~Truthy(stripe_id(txn))
    THEN [intent |-> <<>>, calls |-> <<>>, raised |-> FALSE]
    ELSE IF ok /\ txn.intent_id \in DOMAIN charges
         THEN [intent |-> <<[charges |-> charges[txn.intent_id]]>>,
               calls |-> <<RetrieveCall(txn.intent_id)>>,
               raised |-> FALSE]
         ELSE [intent |-> <<>>,
               calls |-> <<RetrieveCall(txn.intent_id)>>,
               raised |-> TRUE]

\* ReceiptTransaction.get_stripe_intent. `charges` is Stripe's side and `ok`
\* whether stripe.PaymentIntent.retrieve answers (it raises otherwise).
\* The intent returned is <<[charges |-> ...]>>, and <<>> stands for None.
get_stripe_intent(txn, charges, ok) ==
    IF ~Truthy(stripe_id(txn))
    THEN [intent |-> <<>>, calls |-> <<>>, raised |-> FALSE]
    ELSE IF ok /\ txn.intent_id \in DOMAIN charges
         THEN [intent |-> <<[charges |-> charges[txn.intent_id]]>>,
               calls |-> <<RetrieveCall(txn.intent_id)>>,
               raised |-> FALSE]
         ELSE [intent |-> <<>>,
               calls |-> <<RetrieveCall(txn.intent_id), LogErrorCall>>,
               raised |-> FALSE]

\* the early return dropped: a paid transaction is checked like any other
never_paid(txn) == FALSE

\* `if self.charge_id: return`
already_paid(txn) == Truthy(txn.charge_id)

\* intent.charges.data[0].id
first_charge_id(intent) == intent.charges[1]

RefundListCall(intent_id) == <<"stripe.Refund.list", intent_id>>

\* the loop of update_amount_refunded: refunded_total over the refunds listed
refunded_total(refunds) == Sum(refunds)

----------------------------------------------------------------------------
(* The rows the operations are tried on *)

Times == {1, 2}
Timestamp == "2023-01-01"

\* `who`, `desc` and `revert_change` are free text that no aggregate reads
ItemInputs ==
    [amount : {10, -5}, count : {1, 2}, added : Times, closed : {None, Timestamp}]

\* a new ReceiptTransaction: not cancelled, nothing refunded yet; a refund_id
\* is the id of the Stripe refund a refund row records
TxnInputs ==
    {txn \in [intent_id : {"", "pi_1"}, charge_id : {None, "", "ch_0"},
              refund_id : {"", "re_1"}, method : {STRIPE, CASH},
              amount : {-5, 5, 20}, refunded : {<<>>}, added : Times,
              cancelled : {None}] :
        txn.refund_id # "" => txn.amount < 0}

\* the Stripe payments among them, as created for a payment intent
StripeTxnInputs ==
    {txn \in TxnInputs : txn.method = STRIPE /\ txn.amount = 5 /\ txn.added = 1}

----------------------------------------------------------------------------
(* The attendee forms of uber/forms/attendee.py *)

\* badge statuses and badge types of the configuration
PENDING_STATUS == "PENDING_STATUS"
REFUNDED_STATUS == "REFUNDED_STATUS"
DEFERRED_STATUS == "DEFERRED_STATUS"
COMPLETED_STATUS == "COMPLETED_STATUS"
STAFF_BADGE == "STAFF_BADGE"
CONTRACTOR_BADGE == "CONTRACTOR_BADGE"
ATTENDEE_BADGE == "ATTENDEE_BADGE"

\* the fields PersonalInfo inherits from AddressForm, as its
\* get_optional_fields names them
AddressFormFields ==
    <<"address1", "city", "region", "region_us", "region_canada", "zip_code",
      "country">>

\* list(self._fields.keys()) of each form: its fields in declaration order
PersonalInfoFields ==
    AddressFormFields \o
    <<"first_name", "last_name", "same_legal_name", "legal_name", "email",
      "cellphone", "birthdate", "age_group", "ec_name", "ec_phone",
      "onsite_contact", "copy_email", "copy_phone", "copy_address",
      "no_cellphone", "no_onsite_contact", "international">>

BadgeExtrasFields ==
    <<"badge_type", "upgrade_badge_type", "amount_extra", "extra_donation",
      "shirt", "badge_printed_name">>

OtherInfoFields ==
    <<"placeholder", "staffing", "requested_dept_ids",
      "requested_accessibility_services", "interests">>

\* whether the forms take the registration to be cancelled
is_cancelled_unless_refunded(a) == ~a.is_valid

is_cancelled(a) == ~a.is_valid \/ a.badge_status = REFUNDED_STATUS

\* PersonalInfo.get_non_admin_locked_fields(attendee)
PersonalInfo_get_non_admin_locked_fields(a) ==
    IF a.is_new \/ a.badge_status = PENDING_STATUS THEN <<>>
    ELSE IF is_cancelled(a) THEN PersonalInfoFields
    ELSE IF a.placeholder THEN <<>>
    ELSE <<"first_name", "last_name", "legal_name", "same_legal_name">>

\* whether BadgeExtras takes money to be in flight for the attendee
money_in_flight_and(a) ==
    Truthy(a.active_receipt) /\ a.badge_status = DEFERRED_STATUS

money_in_flight(a) ==
    Truthy(a.active_receipt) \/ a.badge_status = DEFERRED_STATUS

\* BadgeExtras.get_non_admin_locked_fields(attendee), prices being
\* c.BADGE_TYPE_PRICES
BadgeExtras_get_non_admin_locked_fields(a, prices) ==
    IF a.is_new THEN <<>>
    ELSE IF is_cancelled(a) THEN BadgeExtrasFields
    ELSE IF money_in_flight(a)
    THEN <<"badge_type", "amount_extra", "extra_donation">>
    ELSE IF prices = {} THEN <<"badge_type">>
    ELSE <<>>

\* OtherInfo.get_non_admin_locked_fields(attendee)
OtherInfo_get_non_admin_locked_fields(a) ==
    LET locked_fields == IF ~a.placeholder THEN <<"placeholder">> ELSE <<>>
    IN  IF a.is_new THEN locked_fields
        ELSE IF is_cancelled(a) THEN OtherInfoFields
        ELSE IF a.badge_type \in {STAFF_BADGE, CONTRACTOR_BADGE} \/ a.shifts # <<>>
        THEN Append(locked_fields, "staffing")
        ELSE locked_fields

\* the attributes of an Attendee that the forms read; active_receipt is the
\* attendee's open receipt or None, shifts the list of the attendee's shifts
AttendeeInputs ==
    [is_new : BOOLEAN, is_valid : BOOLEAN,
     badge_status : {PENDING_STATUS, REFUNDED_STATUS, DEFERRED_STATUS,
                     COMPLETED_STATUS},
     placeholder : BOOLEAN, active_receipt : {None, "receipt"},
     badge_type : {STAFF_BADGE, CONTRACTOR_BADGE, ATTENDEE_BADGE},
     shifts : {<<>>, <<"shift">>}]

\* an attendee being registered
NewAttendee ==
    [is_new |-> TRUE, is_valid |-> TRUE, badge_status |-> PENDING_STATUS,
     placeholder |-> FALSE, active_receipt |-> None,
     badge_type |-> ATTENDEE_BADGE, shifts |-> <<>>]

\* c.BADGE_TYPE_PRICES: no badge type has a price, or one has
PriceConfigs == {{}, {ATTENDEE_BADGE}}

\* the answer of a form: which form, and the list it returned
Locked(form, fields) == [form |-> form, fields |-> fields]

NotAsked == Locked("none", <<>>)

\* the amounts, in cents, of the refunds Stripe makes
RefundAmounts == {2, 5}

\* the requests and background tasks that call the methods of a
\* ReceiptTransaction at the same time
Invocations == {"request", "task"}

\* a caller that is in no method: `method` is the method it called last and
\* `pc` the line of commerce.py it is at ("return" when it is in none), `txn`
\* the transaction the method was called on, `found` the row as the method
\* found it at its first line, `intent` what get_stripe_intent returned,
\* `listed` the refunds stripe.Refund.list returned, `calls` the calls the
\* method made and `raised` whether an exception left it
NotInvoked ==
    [method |-> "none", pc |-> "return", txn |-> 0, found |-> <<>>,
     intent |-> <<>>, listed |-> <<>>, calls |-> <<>>, raised |-> FALSE]

\* a caller that has just entered `method` on transaction i, at line `pc`
Entered(method, pc, i) ==
    [NotInvoked EXCEPT !.method = method, !.pc = pc, !.txn = i]

----------------------------------------------------------------------------
(* Operations *)

Operation(name, i) == [name |-> name, txn |-> i]

Init ==
    /\ receipt_items = <<>>
    /\ receipt_txns = <<>>
    /\ stripe_charges = [p \in IntentIds |-> <<>>]
    /\ op = Operation("init", 0)
    /\ calls = <<>>
    /\ raised = FALSE
    /\ attendee = NewAttendee
    /\ BADGE_TYPE_PRICES = {}
    /\ locked = NotAsked
    /\ invocations = [p \in Invocations |-> NotInvoked]
    /\ stripe_refunds = [p \in IntentIds |-> <<>>]

\* a ReceiptItem row is added to the receipt
AddReceiptItem ==
    /\ Len(receipt_items) < MaxItems
    /\ \E item \in ItemInputs : receipt_items' = Append(receipt_items, item)
    /\ op' = Operation("add_receipt_item", 0)
    /\ calls' = <<>>
    /\ raised' = FALSE
    /\ UNCHANGED <<receipt_txns, stripe_charges>>
    /\ UNCHANGED beside_ledger

\* a ReceiptTransaction row, one of `inputs`, is added to the receipt
AddTxnFrom(inputs) ==
    /\ Len(receipt_txns) < MaxTxns
    /\ \E txn \in inputs : receipt_txns' = Append(receipt_txns, txn)
    /\ op' = Operation("add_receipt_txn", Len(receipt_txns) + 1)
    /\ calls' = <<>>
    /\ raised' = FALSE
    /\ UNCHANGED <<receipt_items, stripe_charges>>
    /\ UNCHANGED beside_ledger

AddReceiptTxn == AddTxnFrom(TxnInputs)

AddStripeTxn == AddTxnFrom(StripeTxnInputs)

\* a transaction is cancelled: its `cancelled` column gets a timestamp
CancelTxn ==
    /\ \E i \in 1..Len(receipt_txns) :
        /\ ~Truthy(receipt_txns[i].cancelled)
        /\ receipt_txns' = [receipt_txns EXCEPT ![i].cancelled = Timestamp]
        /\ op' = Operation("cancel", i)
    /\ calls' = <<>>
    /\ raised' = FALSE
    /\ UNCHANGED <<receipt_items, stripe_charges>>
    /\ UNCHANGED beside_ledger

\* Charge.mark_paid_from_intent_id is called for an intent and its charge
MarkPaid ==
    /\ \E p \in IntentIds :
        /\ receipt_txns' \in mark_paid_from_intent_id(receipt_txns, p, ChargeIds[1])
        /\ receipt_txns' # receipt_txns
    /\ op' = Operation("mark_paid_from_intent_id", 0)
    /\ calls' = <<>>
    /\ raised' = FALSE
    /\ UNCHANGED <<receipt_items, stripe_charges>>
    /\ UNCHANGED beside_ledger

\* Stripe attaches one more charge to a payment intent
StripeCharge ==
    /\ \E p \in IntentIds :
        /\ Len(stripe_charges[p]) < MaxCharges
        /\ stripe_charges' = [stripe_charges EXCEPT
               ![p] = Append(@, ChargeIds[Len(@) + 1])]
    /\ op' = Operation("stripe_charge", 0)
    /\ calls' = <<>>
    /\ raised' = FALSE
    /\ UNCHANGED <<receipt_items, receipt_txns>>
    /\ UNCHANGED beside_ledger

\* The ledger: rows are added, cancelled and marked paid
Next ==
    \/ AddReceiptItem
    \/ AddReceiptTxn
    \/ CancelTxn
    \/ MarkPaid

Spec == Init /\ [][Next]_vars

\* what a step of a method of a transaction leaves alone, the transactions
\* apart
beside_check ==
    <<receipt_items, stripe_charges, op, calls, raised, attendee,
      BADGE_TYPE_PRICES, locked, stripe_refunds>>

\* A method that calls Stripe waits for the answer while other requests and
\* tasks run: a step of a caller is what the method does between two such
\* points.

\* check_paid_from_stripe is called on transaction i
CallCheckPaidFromStripe(p, i) ==
    /\ invocations[p].pc = "return"
    /\ i \in 1..Len(receipt_txns)
    /\ invocations' = [invocations EXCEPT
           ![p] = Entered("check_paid_from_stripe", "233", i)]
    /\ UNCHANGED <<receipt_txns, beside_check>>

\* line 233: `if self.charge_id: return`
TestChargeId(p) ==
    LET self == invocations[p]
        txn == receipt_txns[self.txn]
    IN  /\ self.pc = "233"
        /\ invocations' = [invocations EXCEPT ![p] =
               [self EXCEPT !.found = <<txn>>,
                            !.pc = IF already_paid(txn) THEN "return" ELSE "236"]]
        /\ UNCHANGED <<receipt_txns, beside_check>>

\* line 236: `intent = self.get_stripe_intent()`, answered by Stripe or not
GetStripeIntent(p, ok) ==
    LET self == invocations[p]
        got == get_stripe_intent(receipt_txns[self.txn], stripe_charges, ok)
    IN  /\ self.pc = "236"
        /\ invocations' = [invocations EXCEPT ![p] =
               [self EXCEPT !.intent = got.intent,
                            !.calls = got.calls,
                            !.raised = got.raised,
                            !.pc = IF got.raised THEN "return" ELSE "237"]]
        /\ UNCHANGED <<receipt_txns, beside_check>>

\* lines 237-238: `if intent and intent.charges: return Charge.mark_paid...`
MarkPaidFromIntent(p) ==
    LET self == invocations[p]
        txn == receipt_txns[self.txn]
    IN  /\ self.pc = "237"
        /\ IF self.intent # <<>> /\ self.intent[1].charges # <<>>
           THEN LET charge_id == first_charge_id(self.intent[1])
                IN  /\ receipt_txns' \in mark_paid_from_intent_id(
                            receipt_txns, txn.intent_id, charge_id)
                    /\ invocations' = [invocations EXCEPT ![p] =
                           [self EXCEPT
                               !.calls = Append(@, MarkPaidCall(txn.intent_id,
                                                                charge_id)),
                               !.pc = "return"]]
           ELSE /\ receipt_txns' = receipt_txns
                /\ invocations' = [invocations EXCEPT ![p].pc = "return"]
        /\ UNCHANGED beside_check

CallsCheckPaidFromStripe ==
    \E p \in Invocations, i \in 1..MaxTxns : CallCheckPaidFromStripe(p, i)

TestsChargeId == \E p \in Invocations : TestChargeId(p)

GetsStripeIntent == \E p \in Invocations, ok \in BOOLEAN : GetStripeIntent(p, ok)

MarksPaidFromIntent == \E p \in Invocations : MarkPaidFromIntent(p)

\* Reconciliation: Stripe payments are created, charged by Stripe, cancelled
\* and checked against Stripe by requests and tasks
ReconNext ==
    \/ AddStripeTxn
    \/ CancelTxn
    \/ StripeCharge
    \/ CallsCheckPaidFromStripe
    \/ TestsChargeId
    \/ GetsStripeIntent
    \/ MarksPaidFromIntent

Recon == Init /\ [][ReconNext]_vars

\* The forms: an attendee and a configuration are given, and each form is
\* asked for the fields it locks for non-admins
FormsInit ==
    /\ receipt_items = <<>>
    /\ receipt_txns = <<>>
    /\ stripe_charges = [p \in IntentIds |-> <<>>]
    /\ op = Operation("init", 0)
    /\ calls = <<>>
    /\ raised = FALSE
    /\ attendee \in AttendeeInputs
    /\ BADGE_TYPE_PRICES \in PriceConfigs
    /\ locked = NotAsked
    /\ invocations = [p \in Invocations |-> NotInvoked]
    /\ stripe_refunds = [p \in IntentIds |-> <<>>]

PersonalInfoLocked ==
    /\ locked' = Locked("PersonalInfo",
                        PersonalInfo_get_non_admin_locked_fields(attendee))
    /\ UNCHANGED <<beside_forms, attendee, BADGE_TYPE_PRICES>>

BadgeExtrasLocked ==
    /\ locked' = Locked("BadgeExtras",
                        BadgeExtras_get_non_admin_locked_fields(attendee,
                                                                BADGE_TYPE_PRICES))
    /\ UNCHANGED <<beside_forms, attendee, BADGE_TYPE_PRICES>>

OtherInfoLocked ==
    /\ locked' = Locked("OtherInfo",
                        OtherInfo_get_non_admin_locked_fields(attendee))
    /\ UNCHANGED <<beside_forms, attendee, BADGE_TYPE_PRICES>>

FormsNext ==
    \/ PersonalInfoLocked
    \/ BadgeExtrasLocked
    \/ OtherInfoLocked

Forms == FormsInit /\ [][FormsNext]_vars

\* Concurrent checks: check_paid_from_stripe has been called on one
\* transaction by the request and by the task, and their steps interleave
RaceInit ==
    /\ receipt_items = <<>>
    /\ \E txn \in StripeTxnInputs : receipt_txns = <<txn>>
    /\ stripe_charges = [p \in IntentIds |-> <<>>]
    /\ op = Operation("init", 0)
    /\ calls = <<>>
    /\ raised = FALSE
    /\ attendee = NewAttendee
    /\ BADGE_TYPE_PRICES = {}
    /\ locked = NotAsked
    /\ invocations =
           [p \in Invocations |-> Entered("check_paid_from_stripe", "233", 1)]
    /\ stripe_refunds = [p \in IntentIds |-> <<>>]

RaceNext ==
    \/ StripeCharge
    \/ TestsChargeId
    \/ GetsStripeIntent
    \/ MarksPaidFromIntent

Race == RaceInit /\ [][RaceNext]_vars

\* Stripe refunds part of a payment intent
StripeRefund ==
    /\ \E p \in IntentIds, amount \in RefundAmounts :
        /\ Len(stripe_refunds[p]) < MaxRefunds
        /\ stripe_refunds' = [stripe_refunds EXCEPT ![p] = Append(@, amount)]
    /\ op' = Operation("stripe_refund", 0)
    /\ calls' = <<>>
    /\ raised' = FALSE
    /\ UNCHANGED <<receipt_items, receipt_txns, stripe_charges, attendee,
                   BADGE_TYPE_PRICES, locked, invocations>>

\* update_amount_refunded is called on transaction i
CallUpdateAmountRefunded(p, i) ==
    /\ invocations[p].pc = "return"
    /\ i \in 1..Len(receipt_txns)
    /\ invocations' = [invocations EXCEPT
           ![p] = Entered("update_amount_refunded", "205", i)]
    /\ UNCHANGED <<receipt_txns, beside_check>>

\* line 205: `if not self.intent_id: return`
TestIntentId(p) ==
    LET self == invocations[p]
        txn == receipt_txns[self.txn]
    IN  /\ self.pc = "205"
        /\ invocations' = [invocations EXCEPT ![p] =
               [self EXCEPT !.found = <<txn>>,
                            !.pc = IF ~Truthy(txn.intent_id) THEN "return"
                                   ELSE "209"]]
        /\ UNCHANGED <<receipt_txns, beside_check>>

\* line 209: `stripe.Refund.list(payment_intent=self.intent_id)`, answered by
\* Stripe or failed: the exception of a failed listing leaves the method
ListRefunds(p, ok) ==
    LET self == invocations[p]
        txn == receipt_txns[self.txn]
    IN  /\ self.pc = "209"
        /\ invocations' = [invocations EXCEPT ![p] =
               [self EXCEPT
                   !.calls = <<RefundListCall(txn.intent_id)>>,
                   !.listed = IF ok THEN stripe_refunds[txn.intent_id] ELSE <<>>,
                   !.raised = ~ok,
                   !.pc = IF ok THEN "210" ELSE "return"]]
        /\ UNCHANGED <<receipt_txns, beside_check>>

\* lines 208-212: the refunds listed are summed and `self.refunded` is set
SetRefunded(p) ==
    LET self == invocations[p]
    IN  /\ self.pc = "210"
        /\ receipt_txns' = [receipt_txns EXCEPT
               ![self.txn].refunded = <<refunded_total(self.listed)>>]
        /\ invocations' = [invocations EXCEPT ![p].pc = "return"]
        /\ UNCHANGED beside_check

CallsUpdateAmountRefunded ==
    \E p \in Invocations, i \in 1..MaxTxns : CallUpdateAmountRefunded(p, i)

TestsIntentId == \E p \in Invocations : TestIntentId(p)

ListsRefunds == \E p \in Invocations, ok \in BOOLEAN : ListRefunds(p, ok)

SetsRefunded == \E p \in Invocations : SetRefunded(p)

\* Refunds: Stripe payments are created, Stripe refunds part of an intent,
\* and requests and tasks call update_amount_refunded
RefundingNext ==
    \/ AddStripeTxn
    \/ StripeRefund
    \/ CallsUpdateAmountRefunded
    \/ TestsIntentId
    \/ ListsRefunds
    \/ SetsRefunded

Refunding == Init /\ [][RefundingNext]_vars

----------------------------------------------------------------------------
(* The ledger's balances *)

\* the receipt as it stands
Owed == current_amount_owed(receipt_items, receipt_txns)
Balance == current_receipt_amount(receipt_items, receipt_txns)
Payments == payment_total(receipt_items, receipt_txns)
Refunds == refund_total(receipt_txns)
Pending == pending_total(receipt_txns)

\* amount * count summed over a list of items
RECURSIVE TotalOf(_)
TotalOf(items) ==
    IF items = <<>> THEN 0
    ELSE Head(items).amount * Head(items).count + TotalOf(Tail(items))

\* C1: in every reachable state current_receipt_amount is
\* item_total - (payment_total - refund_total), item_total being the sum of
\* amount * count over all the receipt's items, the open and the closed ones
C1_ReceiptAmount ==
    Balance = (TotalOf(open_receipt_items(receipt_items))
               + TotalOf(closed_receipt_items(receipt_items)))
              - (Payments - Refunds)

\* a receipt with a closed item, a counted payment and a refund
C1_Witness ==
    /\ closed_receipt_items(receipt_items) # <<>>
    /\ Payments > 0
    /\ Refunds > 0

\* C2: current_amount_owed is never negative: it is current_receipt_amount
\* when that is positive and 0 otherwise
C2_AmountOwed ==
    /\ Owed >= 0
    /\ Balance > 0 => Owed = Balance
    /\ Balance <= 0 => Owed = 0

\* payments exceed the purchases on the receipt: the balance is negative
C2_Witness ==
    /\ item_total(receipt_items) > 0
    /\ Payments > item_total(receipt_items)
    /\ Balance < 0
    /\ Owed = 0

----------------------------------------------------------------------------
(* Payments, refunds and pending charges *)

\* the step added a transaction to the receipt
TxnAdded == op'.name = "add_receipt_txn"

\* the transaction that step added
AddedTxn == receipt_txns'[Len(receipt_txns')]

\* the step added an item to the receipt
ItemAdded == op'.name = "add_receipt_item"

\* amount * count summed over the items added no later than the transaction
ItemsAddedBy(txn, items) ==
    LET before(item) == item.added <= txn.added
    IN  TotalOf(SelectSeq(items, before))

\* C3: a transaction that counts as a payment contributes
\* min(amount, total of the items added no later than it) to payment_total,
\* and one whose amount does not exceed that total lowers
\* current_receipt_amount by exactly its amount
C3_PartialPayment ==
    [][(TxnAdded /\ CountsAsPayment(AddedTxn)) =>
          /\ Payments' - Payments =
                 Min(AddedTxn.amount, ItemsAddedBy(AddedTxn, receipt_items))
          /\ AddedTxn.amount <= ItemsAddedBy(AddedTxn, receipt_items)
                 => Balance' = Balance - AddedTxn.amount]_vars

\* C4: adding a refund transaction of amount -r, whatever its method,
\* charge_id and refund_id, raises current_receipt_amount by exactly r and
\* lowers txn_total by exactly r
C4_Refund ==
    [][(TxnAdded /\ AddedTxn.amount < 0) =>
          /\ Balance' = Balance + (-AddedTxn.amount)
          /\ txn_total(receipt_items, receipt_txns') =
                 txn_total(receipt_items, receipt_txns) - (-AddedTxn.amount)]_vars

\* C5: a transaction is pending exactly when it has an intent_id, no
\* charge_id and is not cancelled, and no transaction is counted both in
\* pending_total and in payment_total
C5_PendingNotPaid ==
    \A i \in 1..Len(receipt_txns) :
        LET txn == receipt_txns[i]
        IN  /\ is_pending_charge(txn) <=>
                   (txn.intent_id \notin {None, ""}
                    /\ txn.charge_id \in {None, ""}
                    /\ txn.cancelled = None)
            /\ ~(is_pending_charge(txn) /\ CountsAsPayment(txn))

\* C6: adding a receipt item, with any `added` time, changes item_total
\* only: payment_total, refund_total, pending_total and txn_total stay
C6_ItemFrame ==
    [][ItemAdded =>
          /\ Payments' = Payments
          /\ Refunds' = Refunds
          /\ Pending' = Pending
          /\ txn_total(receipt_items', receipt_txns) =
                 txn_total(receipt_items, receipt_txns)]_vars

\* C10: the instance-level payment_total equals the class-level SQL
\* expression payment_total evaluated over the same rows
C10_HybridAgrees ==
    <<Payments>> = payment_total_expression(receipt_txns)

----------------------------------------------------------------------------
(* Reconciliation against Stripe *)

\* the caller p takes the step
Stepped(p) == invocations'[p] # invocations[p]

\* the caller p is in check_paid_from_stripe, at line pc
Checking(p, pc) ==
    /\ invocations[p].method = "check_paid_from_stripe"
    /\ invocations[p].pc = pc

\* the caller p has returned from check_paid_from_stripe
Checked(p) == Checking(p, "return")

\* a call occurs among the calls a method made
Called(call, made) == \E k \in 1..Len(made) : made[k] = call

\* the method made a mark-paid call
MarkedPaid(made) ==
    \E k \in 1..Len(made) : made[k][1] = "Charge.mark_paid_from_intent_id"

\* the method called Stripe
CalledStripe(made) ==
    \E k \in 1..Len(made) : made[k][1] = "stripe.PaymentIntent.retrieve"

C8_FailedRetrieval ==
    [][\A p \in Invocations :
          Stepped(p) =>
              LET self == invocations[p]
                  after == invocations'[p]
                  txn == receipt_txns[self.txn]
              IN  /\ ~after.raised
                  /\ ( /\ Checking(p, "236")
                       /\ ~Truthy(txn.charge_id)
                       /\ ~Truthy(txn.intent_id) ) =>
                         /\ after.calls = <<>>
                         /\ receipt_txns' = receipt_txns
                  /\ ( /\ Checking(p, "236")
                       /\ Called(LogErrorCall, after.calls) ) =>
                         /\ after.intent = <<>>
                         /\ receipt_txns' = receipt_txns
                  /\ ( /\ Checking(p, "237")
                       /\ \/ self.intent = <<>>
                          \/ self.intent[1].charges = <<>> ) =>
                         /\ after.pc = "return"
                         /\ ~MarkedPaid(after.calls)
                         /\ receipt_txns' = receipt_txns]_vars

\* the retrieval failed for a pending transaction whose intent has a charge:
\* the failure was logged, the check returned, the transaction is pending
C8_Witness ==
    \E p \in Invocations :
        /\ Checked(p)
        /\ invocations[p].calls = <<RetrieveCall("pi_1"), LogErrorCall>>
        /\ ~invocations[p].raised
        /\ is_pending_charge(receipt_txns[invocations[p].txn])
        /\ stripe_charges["pi_1"] # <<>>

----------------------------------------------------------------------------
(* Field locking *)

\* the set of the fields in a list of field names
FieldsIn(fields) == {fields[k] : k \in 1..Len(fields)}

LockedFields == FieldsIn(locked.fields)

\* the attendee is not new, and is not valid or has badge status REFUNDED
CancelledRegistration ==
    /\ ~attendee.is_new
    /\ ~attendee.is_valid \/ attendee.badge_status = REFUNDED_STATUS

\* what every form locks for a new attendee
NewAttendeeLocks ==
    attendee.is_new =>
        /\ locked.form \in {"PersonalInfo", "BadgeExtras"} => LockedFields = {}
        /\ locked.form = "OtherInfo" => LockedFields \subseteq {"placeholder"}

\* BadgeExtras and OtherInfo lock every field of a cancelled registration
CancelledLocksExtrasAndOther ==
    CancelledRegistration =>
        /\ locked.form = "BadgeExtras" => LockedFields = FieldsIn(BadgeExtrasFields)
        /\ locked.form = "OtherInfo" => LockedFields = FieldsIn(OtherInfoFields)

\* C11 as stated: for a cancelled registration PersonalInfo, too, returns
\* every field of the form, whatever the badge status
C11_AllFormsLockAll ==
    /\ NewAttendeeLocks
    /\ CancelledLocksExtrasAndOther
    /\ locked.form = "PersonalInfo" /\ CancelledRegistration =>
           LockedFields = FieldsIn(PersonalInfoFields)

\* C11: for an attendee that is not new and is not valid or has badge status
\* REFUNDED, BadgeExtras and OtherInfo return every field of the form, and
\* PersonalInfo returns every field unless the badge status is PENDING, when
\* it returns none; for a new attendee PersonalInfo and BadgeExtras lock no
\* field and OtherInfo locks at most `placeholder`
C11_CancelledLocksAll ==
    /\ NewAttendeeLocks
    /\ CancelledLocksExtrasAndOther
    /\ locked.form = "PersonalInfo" /\ CancelledRegistration =>
           LockedFields = IF attendee.badge_status = PENDING_STATUS THEN {}
                          ELSE FieldsIn(PersonalInfoFields)

\* PersonalInfo was asked about a pending registration that is not valid
C11_Witness ==
    /\ locked.form = "PersonalInfo"
    /\ CancelledRegistration
    /\ attendee.badge_status = PENDING_STATUS
    /\ locked.fields = <<>>

\* C12: for a non-new, valid, non-refunded attendee BadgeExtras locks
\* badge_type, amount_extra and extra_donation when the attendee has an
\* active receipt or badge status DEFERRED; otherwise it locks badge_type
\* only when no badge-type prices are configured; and it never locks shirt
\* or badge_printed_name
C12_CostFieldsFrozen ==
    ( /\ locked.form = "BadgeExtras"
      /\ ~attendee.is_new
      /\ attendee.is_valid
      /\ attendee.badge_status # REFUNDED_STATUS ) =>
        /\ ( attendee.active_receipt # None
             \/ attendee.badge_status = DEFERRED_STATUS ) =>
               {"badge_type", "amount_extra", "extra_donation"}
                   \subseteq LockedFields
        /\ ( /\ attendee.active_receipt = None
             /\ attendee.badge_status # DEFERRED_STATUS
             /\ "badge_type" \in LockedFields ) => BADGE_TYPE_PRICES = {}
        /\ "shirt" \notin LockedFields
        /\ "badge_printed_name" \notin LockedFields

\* BadgeExtras was asked about a deferred attendee without an active receipt
C12_Witness ==
    /\ locked.form = "BadgeExtras"
    /\ ~attendee.is_new
    /\ attendee.is_valid
    /\ attendee.badge_status = DEFERRED_STATUS
    /\ attendee.active_receipt = None
    /\ "amount_extra" \in LockedFields

----------------------------------------------------------------------------
(* Cancelled transactions *)

\* the transactions of the receipt other than transaction i
TxnsWithout(txns, i) ==
    SubSeq(txns, 1, i - 1) \o SubSeq(txns, i + 1, Len(txns))

\* C13: once a transaction has been cancelled, payment_total, refund_total,
\* pending_total and current_receipt_amount are what they would be if that
\* transaction were not on the receipt
C13_CancelledCountsNothing ==
    op.name = "cancel" =>
        LET rest == TxnsWithout(receipt_txns, op.txn)
        IN  /\ Payments = payment_total(receipt_items, rest)
            /\ Refunds = refund_total(rest)
            /\ Pending = pending_total(rest)
            /\ Balance = current_receipt_amount(receipt_items, rest)

\* C14: check_paid_from_stripe on a transaction whose `cancelled` is set
\* when the check is called makes no mark-paid call, also when the
\* transaction has an intent_id, no charge_id and its intent has a charge at
\* Stripe
C14_CancelledNeverMarkedPaid ==
    [][\A p \in Invocations :
          ( /\ Stepped(p)
            /\ invocations[p].method = "check_paid_from_stripe"
            /\ invocations[p].found # <<>>
            /\ Truthy(invocations[p].found[1].cancelled) ) =>
              ~MarkedPaid(invocations'[p].calls)]_vars

----------------------------------------------------------------------------
(* Concurrent checks *)

\* the invocations that have made a mark-paid call
Marking == {p \in Invocations : MarkedPaid(invocations[p].calls)}

\* the invocations that found no charge_id on the transaction at line 233
FoundUnpaid ==
    {p \in Invocations :
        /\ invocations[p].found # <<>>
        /\ ~Truthy(invocations[p].found[1].charge_id)}

\* the number of mark-paid calls an invocation has made
RECURSIVE MarkPaidCalls(_)
MarkPaidCalls(made) ==
    IF made = <<>> THEN 0
    ELSE (IF Head(made)[1] = "Charge.mark_paid_from_intent_id" THEN 1 ELSE 0)
         + MarkPaidCalls(Tail(made))

\* C15 as stated: however the two invocations interleave,
\* Charge.mark_paid_from_intent_id is invoked at most once for the
\* transaction's intent
C15_MarkedPaidAtMostOnce == Cardinality(Marking) <= 1

\* C15: Charge.mark_paid_from_intent_id is invoked at most once by each
\* invocation, and only by an invocation that read the charge_id before a
\* mark-paid call had set it; so at most once when one invocation begins
\* after the other has marked the transaction paid
C15_MarkedPaidOncePerUnpaidRead ==
    /\ \A p \in Invocations : MarkPaidCalls(invocations[p].calls) <= 1
    /\ Marking \subseteq FoundUnpaid
    /\ \A p, q \in Invocations :
          ( /\ p \in Marking
            /\ invocations[q].found # <<>>
            /\ invocations[q].found[1].charge_id \in FieldsIn(ChargeIds) ) =>
              invocations[q].calls = <<>>

\* the task began its check after the request's check had marked the
\* transaction paid, and returned without a call
C15_Witness ==
    /\ invocations["request"].calls =
           <<RetrieveCall("pi_1"), MarkPaidCall("pi_1", "ch_1")>>
    /\ invocations["task"].pc = "return"
    /\ invocations["task"].found # <<>>
    /\ invocations["task"].found[1].charge_id = "ch_1"
    /\ invocations["task"].calls = <<>>

----------------------------------------------------------------------------
(* Refunded amounts *)

\* the caller p is in update_amount_refunded, at line pc
Updating(p, pc) ==
    /\ invocations[p].method = "update_amount_refunded"
    /\ invocations[p].pc = pc

\* the sum of the amounts of a list of refunds
RECURSIVE RefundedAtStripe(_)
RefundedAtStripe(amounts) ==
    IF amounts = <<>> THEN 0 ELSE Head(amounts) + RefundedAtStripe(Tail(amounts))

\* after the step, transaction k has been updated with Stripe's refunds as
\* they are: a caller has returned from update_amount_refunded on it, and
\* what Stripe listed to that caller is what Stripe lists now
UpdatedNow(k) ==
    \E q \in Invocations :
        /\ invocations'[q].method = "update_amount_refunded"
        /\ invocations'[q].pc = "return"
        /\ invocations'[q].txn = k
        /\ invocations'[q].calls # <<>>
        /\ ~invocations'[q].raised
        /\ invocations'[q].listed = stripe_refunds'[receipt_txns'[k].intent_id]

\* the sum of `refunded` over the transactions of an intent, NULL being 0
RECURSIVE RefundedOf(_, _)
RefundedOf(txns, intent_id) ==
    IF txns = <<>> THEN 0
    ELSE (IF Head(txns).intent_id = intent_id /\ Head(txns).refunded # <<>>
          THEN Head(txns).refunded[1] ELSE 0)
         + RefundedOf(Tail(txns), intent_id)

\* update_amount_refunded sets `refunded` to the sum of the refunds Stripe
\* listed to it and changes nothing else; without an intent_id it returns
\* without a call to Stripe and changes nothing; and it changes nothing when
\* `refunded` is that sum already
SetsRefundedToListed ==
    \A p \in Invocations :
        Stepped(p) =>
            LET self == invocations[p]
                after == invocations'[p]
                txn == receipt_txns[self.txn]
            IN  /\ (Updating(p, "205") /\ ~Truthy(txn.intent_id)) =>
                       /\ after.pc = "return"
                       /\ after.calls = <<>>
                       /\ receipt_txns' = receipt_txns
                /\ Updating(p, "210") =>
                       /\ receipt_txns' = [receipt_txns EXCEPT
                              ![self.txn].refunded =
                                  <<RefundedAtStripe(self.listed)>>]
                       /\ txn.refunded = <<RefundedAtStripe(self.listed)>> =>
                              receipt_txns' = receipt_txns

\* C16: update_amount_refunded on a transaction with an intent_id sets
\* `refunded` to the sum of the amounts of the refunds Stripe lists for the
\* intent (0 when there are none) and changes nothing else; without an
\* intent_id it changes nothing and does not call Stripe; repeated with
\* Stripe's refunds unchanged it changes nothing; and once all the
\* transactions that share an intent_id are updated, their `refunded`
\* values add up to no more than Stripe has refunded for the intent
C16_RefundedFromStripe ==
    [][/\ SetsRefundedToListed
       /\ \A p \in IntentIds :
             (\A k \in 1..Len(receipt_txns') :
                 receipt_txns'[k].intent_id = p => UpdatedNow(k)) =>
                 RefundedOf(receipt_txns', p) <=
                     RefundedAtStripe(stripe_refunds'[p])]_vars

====
